---- MODULE Spec2Model ----
(***************************************************************************)
(* Moodlight: the state engine (src/state.rs) and the event loop that      *)
(* drives it (src/main.rs).                                                *)
(*                                                                         *)
(* Numbers.  The program computes in f32; the model computes exactly, in   *)
(* fixed point:                                                            *)
(*   - a hue is an integer number of 1/HueScale degrees;                   *)
(*   - a rendered brightness (the V of HSV, 0.0 ..= 1.0 in the program) is *)
(*     an integer number of 1/(255 * TRANSITION_LENGTH_DS) units;          *)
(*   - a duration is an integer number of deciseconds (0.1 s).             *)
(***************************************************************************)
EXTENDS Integers, Sequences, FiniteSets, TLC

VARIABLES
    state,                  \* main.rs:68   let mut state = State::default()
    step_duration,          \* config.rs:26 Config::step_duration, in deciseconds
    pc,                     \* where the main task is: "select", "sleep", "return", "drain",
                            \* "exit_ok", "exit_err"
    handler,                \* the select! branch being run
    result,                 \* the Result of the handler's work so far
    payload,                \* the payload of the Publish packet being handled
    pre,                    \* the State when the handler began
    path,                   \* the path State::apply took: "none", "immediate", "transition"
    frames,                 \* the lines written to the blaster by the current apply call
    current_brightness,     \* state.rs:173 local of apply_transition
    publishes,              \* the States publish_to_mqtt sent since the last handler began
    initial_state_received, \* main.rs:69
    hass_discovery_sent,    \* main.rs:70
    sub_cmd,                \* the broker holds our subscription to the command topic
    sub_state,              \* ... to the state topic: "no", "yes", "closing"
    sig,                    \* termination signal: "none", "ready" (a listener saw it),
                            \* "missed" (it came when no listener existed), "dropped"
                            \* (the listener that saw it was dropped unserved)
    ticks,                  \* rainbow ticks handled so far
    timer,                  \* main.rs:75 rainbow_timer and the clock, in deciseconds: now,
                            \* the deadline of the next tick, the time of the last tick
                            \* (an Option) and how late that tick was
    command_merged,         \* a ControlMessage has been merged into the State by edit
    drain                   \* main.rs:153 the loop after the shutdown publish: the events
                            \* the EventLoop has ready, and the polls that returned Ready

vars == << state, step_duration, pc, handler, result, payload, pre, path, frames,
           current_brightness, publishes, initial_state_received,
           hass_discovery_sent, sub_cmd, sub_state, sig, ticks, timer,
           command_merged, drain >>

----------------------------------------------------------------------------
(* Bounds of the model *)

\* a command payload carries at most this many fields
MaxFields == 2
\* rainbow ticks handled in one run
MaxTicks == 1
\* events the EventLoop can yield without waiting when the loop is left
MaxReady == 2

----------------------------------------------------------------------------
(* Constants of the program *)

MIN_RAINBOW_SPEED_S == 1
MAX_RAINBOW_SPEED_S == 60
MAX_RAINBOW_SPEED_SETTING == 100
\* TRANSITION_LENGTH_S = 0.5, in deciseconds
TRANSITION_LENGTH_DS == 5
\* u8::MAX
U8_MAX == 255
\* hue fixed point: units per degree
HueScale == 205
\* deciseconds per second
DsPerS == 10

\* Option<T>: None, Some(x)
None == << >>
Some(x) == << x >>
IsSome(o) == o # None
UnwrapOr(o, d) == IF IsSome(o) THEN o[1] ELSE d

\* a payload that is not the JSON of an object of the expected shape
Malformed == [kind |-> "garbage"]
\* no Publish packet is being handled
NoPayload == [kind |-> "none"]
\* Err(_) of a parse
ParseErr == [ok |-> FALSE]
ParseOk(v) == [ok |-> TRUE, value |-> v]

\* 360.0 degrees
FullCircle == 360 * HueScale

Max(a, b) == IF a >= b THEN a ELSE b
Min(a, b) == IF a <= b THEN a ELSE b
\* f32::clamp
Clamp(x, lo, hi) == Max(lo, Min(x, hi))
Abs(x) == IF x >= 0 THEN x ELSE -x
\* the % of Rust: the remainder has the sign of the dividend
Rem(a, m) == IF a >= 0 THEN a % m ELSE -((-a) % m)

----------------------------------------------------------------------------
(* State and its default *)

DefaultState ==
    [ color |-> [h |-> 360 * HueScale, s |-> 100],
      brightness |-> U8_MAX,
      rainbow_speed |-> MAX_RAINBOW_SPEED_S,
      mode |-> "Static",
      state |-> "Off",
      transition |-> FALSE ]

(* Config::step_duration values tried: 0.1 s and 1.0 s (longer than the transition) *)
StepDurations == {1, 10}

----------------------------------------------------------------------------
(* Inbound payloads *)

MsgColors == { [h |-> 90 * HueScale, s |-> 50] }
\* raw JSON numbers for "brightness": in and out of the range of u8
RawBrightness == {-1, 0, 300}
\* raw JSON numbers for "rainbow_speed": in and out of 0..100
RawSpeed == {-5, 150}

Options(S) == {None} \cup {Some(x) : x \in S}

FieldCount(p) ==
    Len(p.color) + Len(p.brightness) + Len(p.rainbow_speed) + Len(p.state) + Len(p.mode)

\* JSON objects sent to the command topic, plus one payload that is not JSON
CommandPayloads ==
    { p \in [ kind : {"json"},
              color : Options(MsgColors),
              brightness : Options(RawBrightness),
              rainbow_speed : Options(RawSpeed),
              state : Options({"On", "Off"}),
              mode : Options({"Static", "Rainbow"}) ] : FieldCount(p) <= MaxFields }
    \cup {Malformed}

\* serde_json::from_slice::<ControlMessage>: brightness is Option<u8>
ParseControlMessage(p) ==
    IF p.kind # "json" THEN ParseErr
    ELSE IF IsSome(p.brightness) /\ p.brightness[1] \notin 0..U8_MAX THEN ParseErr
    ELSE ParseOk([ color |-> p.color, brightness |-> p.brightness,
                   rainbow_speed |-> p.rainbow_speed, state |-> p.state,
                   mode |-> p.mode ])

\* JSON objects sent to the state topic, plus one payload that is not JSON
StatePayloads ==
    { [ kind |-> "json", color |-> [h |-> 90 * HueScale, s |-> 50], brightness |-> 255,
        rainbow_speed |-> 100, mode |-> "Rainbow", state |-> "On", color_mode |-> "hs" ],
      [ kind |-> "json", color |-> [h |-> 360 * HueScale, s |-> 100], brightness |-> 0,
        rainbow_speed |-> 102, mode |-> "Static", state |-> "Off", color_mode |-> "hs" ],
      [ kind |-> "json", color |-> [h |-> 0, s |-> 0], brightness |-> 255,
        rainbow_speed |-> 0, mode |-> "Static", state |-> "On", color_mode |-> "rgb" ],
      [ kind |-> "json", color |-> [h |-> 0, s |-> 0], brightness |-> 300,
        rainbow_speed |-> 0, mode |-> "Static", state |-> "On", color_mode |-> "hs" ],
      Malformed }

\* variant of ParseState: any color_mode is accepted
ParseStateAnyColorMode(p) ==
    IF p.kind # "json" THEN ParseErr
    ELSE IF p.brightness \notin 0..U8_MAX THEN ParseErr
    ELSE ParseOk([ color |-> p.color, brightness |-> p.brightness,
                   rainbow_speed |-> p.rainbow_speed, mode |-> p.mode,
                   state |-> p.state, transition |-> FALSE ])

\* serde_json::from_slice::<State>: brightness is u8, color_mode must be "hs",
\* transition is #[serde(skip)] and takes bool::default()
ParseState(p) ==
    IF p.kind # "json" THEN ParseErr
    ELSE IF p.brightness \notin 0..U8_MAX THEN ParseErr
    ELSE IF p.color_mode # "hs" THEN ParseErr
    ELSE ParseOk([ color |-> p.color, brightness |-> p.brightness,
                   rainbow_speed |-> p.rainbow_speed, mode |-> p.mode,
                   state |-> p.state, transition |-> FALSE ])

----------------------------------------------------------------------------
(* State::edit *)

\* variant of EditColor: the colour of the message is taken whatever the modes
EditColorAnyMode(s, m) == UnwrapOr(m.color, s.color)

\* variant of EditColor: a colour is only taken from a message that sets Static
EditColorOnlyOnSwitch(s, m) ==
    IF m.mode = Some("Static") THEN UnwrapOr(m.color, s.color) ELSE s.color

EditColor(s, m) ==
    IF s.mode = "Static" \/ m.mode = Some("Static")
    THEN UnwrapOr(m.color, s.color)
    ELSE s.color

\* variant of EditRainbowSpeed: a message without rainbow_speed resets it to 0
EditRainbowSpeedReset(s, m) ==
    Clamp(UnwrapOr(m.rainbow_speed, 0), 0, MAX_RAINBOW_SPEED_SETTING)

EditRainbowSpeed(s, m) ==
    IF IsSome(m.rainbow_speed)
    THEN Clamp(m.rainbow_speed[1], 0, MAX_RAINBOW_SPEED_SETTING)
    ELSE s.rainbow_speed

\* variant of EditTransition: any message that names a power starts a transition
EditTransitionAnyPower(s, m) == IsSome(m.state)

EditTransition(s, m) == IsSome(m.state) /\ m.state[1] # s.state

edit(s, m) ==
    [ color |-> EditColor(s, m),
      brightness |-> UnwrapOr(m.brightness, s.brightness),
      rainbow_speed |-> EditRainbowSpeed(s, m),
      state |-> UnwrapOr(m.state, s.state),
      mode |-> UnwrapOr(m.mode, s.mode),
      transition |-> EditTransition(s, m) ]

----------------------------------------------------------------------------
(* State::step_hue *)

\* rainbow_time = MAX_RAINBOW_SPEED_S + RAINBOW_SPEED_SLOPE * rainbow_speed, in 1/100 s
RainbowTime(speed) ==
    MAX_RAINBOW_SPEED_S * MAX_RAINBOW_SPEED_SETTING
    + (MIN_RAINBOW_SPEED_S - MAX_RAINBOW_SPEED_S) * speed

\* step_size = 360.0 / (rainbow_time / step_duration), in hue units
HueStepSize(speed, sd) ==
    LET num == FullCircle * sd * (MAX_RAINBOW_SPEED_SETTING \div DsPerS)
        den == RainbowTime(speed)
    IN  IF den > 0 THEN num \div den ELSE -(num \div (-den))

step_hue(s, sd) ==
    [s EXCEPT !.color.h = Rem(s.color.h + HueStepSize(s.rainbow_speed, sd), FullCircle)]

----------------------------------------------------------------------------
(* write_hsv_to_blaster: Rgb::from_color(hsv) and the line written *)

\* one sextant of the colour wheel, 60 degrees
Sextant == 60 * HueScale

\* Rgb::from_color(Hsv): with c = v*s, x = c*(1 - |(h/60) mod 2 - 1|), m = v - c, the
\* channels are c+m, x+m or m by sextant.  v is in brightness units, s in percent; a
\* channel is an integer number of 1/(255 * TRANSITION_LENGTH_DS * 100 * Sextant).
HsvToRgb(h, s, v) ==
    LET hpos == h % FullCircle
        a    == Abs((hpos % (2 * Sextant)) - Sextant)
        hi   == v * (100 * Sextant)
        mid  == v * (s * (Sextant - a) + (100 - s) * Sextant)
        lo   == v * ((100 - s) * Sextant)
        k    == hpos \div Sextant
    IN  CASE k = 0 -> << hi, mid, lo >>
          [] k = 1 -> << mid, hi, lo >>
          [] k = 2 -> << lo, hi, mid >>
          [] k = 3 -> << lo, mid, hi >>
          [] k = 4 -> << mid, lo, hi >>
          [] OTHER -> << hi, lo, mid >>

\* Hsv::default()
HsvDefault == [h |-> 0, s |-> 0, v |-> 0]

\* the line write_hsv_to_blaster formats, with the power the State has when it is written
Line(hsv, s) ==
    [ v |-> hsv.v, rgb |-> HsvToRgb(hsv.h, hsv.s, hsv.v), power |-> s.state ]

----------------------------------------------------------------------------
(* State::apply_immediate *)

\* brightness as f32 / 255.0, in brightness units
InitialBrightness(s) == s.brightness * TRANSITION_LENGTH_DS

\* variant of ImmediateHsv: the power is not looked at
ImmediateHsvAnyPower(s) == [h |-> s.color.h, s |-> s.color.s, v |-> InitialBrightness(s)]

ImmediateHsv(s) ==
    IF s.state = "On"
    THEN [h |-> s.color.h, s |-> s.color.s, v |-> InitialBrightness(s)]
    ELSE HsvDefault

----------------------------------------------------------------------------
(* State::apply_transition *)

\* variant of StepSize: the step is positive in both directions
StepSizeUnsigned(s, sd) == s.brightness * sd

\* initial_brightness / (TRANSITION_LENGTH_S / step_duration), signed by the direction
StepSize(s, sd) ==
    IF s.state = "On" THEN s.brightness * sd ELSE -(s.brightness * sd)

\* variant of NextBrightness: the clamp is applied to the brightness value itself
NextBrightnessClamped(s, cur, sd) ==
    Clamp(cur + StepSize(s, sd), 0, Max(InitialBrightness(s), 0))

\* current_brightness += step_size
NextBrightness(s, cur, sd) == cur + StepSize(s, sd)

\* the brightness of the first frame
StartBrightness(s) == IF s.state = "On" THEN 0 ELSE InitialBrightness(s)

TargetBrightness(s) == IF s.state = "On" THEN InitialBrightness(s) ELSE 0

BrightnessRangeEnd(s) == Max(TargetBrightness(s), InitialBrightness(s))

\* the Hsv of a frame of the loop: the brightness clamped into the range
FrameHsv(s, cur) ==
    [h |-> s.color.h, s |-> s.color.s, v |-> Clamp(cur, 0, BrightnessRangeEnd(s))]

\* (0.0..brightness_range_end).contains(&current_brightness)
InRange(s, cur) == 0 <= cur /\ cur < BrightnessRangeEnd(s)

\* variant of ConsumeTransition: the flag is left as it is
KeepTransition(s) == s

\* self.transition = false on entry
ConsumeTransition(s) == [s EXCEPT !.transition = FALSE]

----------------------------------------------------------------------------
(* The main task *)

\* the loop of main.rs:153 has not begun
NotDraining == [ready |-> 0, polled |-> 0]

\* main.rs:75 time::interval(period): the first tick is due at once; no tick yet
TimerAtStart == [now |-> 0, deadline |-> 0, last |-> None, late |-> 0]

Init ==
    /\ state = DefaultState
    /\ step_duration \in StepDurations
    /\ pc = "select"
    /\ handler = "none"
    /\ result = "none"
    /\ payload = NoPayload
    /\ pre = DefaultState
    /\ path = "none"
    /\ frames = << >>
    /\ current_brightness = 0
    /\ publishes = << >>
    /\ initial_state_received = FALSE
    /\ hass_discovery_sent = FALSE
    /\ sub_cmd = FALSE
    /\ sub_state = "no"
    /\ sig = "none"
    /\ ticks = 0
    /\ timer = TimerAtStart
    /\ drain = NotDraining
    /\ command_merged = FALSE

\* variant of AtSelect: the sleep of a ramp also yields to the branches of select!
AtSelectOrSleep == pc \in {"select", "sleep"}

\* main.rs:84 the task is parked in tokio::select!, every branch armed
AtSelect == pc = "select"

\* State::apply on the immediate path: one write, which may fail
ApplyImmediate(st) ==
    \E ok \in BOOLEAN :
        /\ state' = st
        /\ path' = "immediate"
        /\ current_brightness' = 0
        /\ frames' = IF ok THEN << Line(ImmediateHsv(st), st) >> ELSE << >>
        /\ result' = IF ok THEN "ok" ELSE "write_err"
        /\ pc' = "return"

\* variant of RampPc: the loop goes on after a write that failed
RampPcIgnoringError(ok, inrange) == IF inrange THEN "sleep" ELSE "return"

\* state.rs:207-213 after a frame of the loop: the ? returns on an error, the break
\* leaves the loop when the brightness is out of the range, else the ramp sleeps
RampPc(ok, inrange) == IF ok /\ inrange THEN "sleep" ELSE "return"

\* State::apply on the transition path, up to its first sleep: the flag is reset, the
\* first frame is written, the brightness is stepped and the second frame written
ApplyTransitionBegin(st) ==
    \E ok1, ok2 \in BOOLEAN :
        LET s1   == ConsumeTransition(st)
            cur0 == StartBrightness(s1)
            cur1 == NextBrightness(s1, cur0, step_duration)
            f0   == Line([h |-> s1.color.h, s |-> s1.color.s, v |-> cur0], s1)
            f1   == Line(FrameHsv(s1, cur1), s1)
        IN  /\ state' = s1
            /\ path' = "transition"
            /\ IF ~ok1
               THEN /\ frames' = << >>
                    /\ current_brightness' = cur0
                    /\ result' = "write_err"
                    /\ pc' = "return"
               ELSE IF ~ok2
               THEN /\ frames' = << f0 >>
                    /\ current_brightness' = cur1
                    /\ result' = "write_err"
                    /\ pc' = RampPc(FALSE, InRange(s1, cur1))
               ELSE /\ frames' = << f0, f1 >>
                    /\ current_brightness' = cur1
                    /\ result' = IF InRange(s1, cur1) THEN "none" ELSE "ok"
                    /\ pc' = RampPc(TRUE, InRange(s1, cur1))

\* State::apply
Apply(st) ==
    IF st.transition THEN ApplyTransitionBegin(st) ELSE ApplyImmediate(st)

\* a select! branch other than the signal's completes: the future of
\* wait_for_terminate, and with it its signal listeners, is dropped
DropListener == sig' = IF sig = "ready" THEN "dropped" ELSE sig

\* main.rs:111 a Publish on the command topic: process_command_message up to the end
\* of apply or to the first sleep of a ramp
HandleCommand(P) ==
    /\ AtSelect
    /\ sub_cmd
    /\ \E p \in P :
        /\ payload' = p
        /\ command_merged' = (command_merged \/ ParseControlMessage(p).ok)
        /\ LET msg == ParseControlMessage(p)
           IN  IF ~msg.ok
               THEN /\ result' = "parse_err"
                    /\ pc' = "return"
                    /\ frames' = << >>
                    /\ path' = "none"
                    /\ UNCHANGED << state, current_brightness >>
               ELSE Apply(edit(state, msg.value))
    /\ handler' = "command"
    /\ pre' = state
    /\ publishes' = << >>
    /\ DropListener
    /\ UNCHANGED << step_duration, initial_state_received, hass_discovery_sent,
                    sub_cmd, sub_state, ticks >>

ProcessCommandMessage == HandleCommand(CommandPayloads) /\ UNCHANGED << timer, drain >>

\* main.rs:117 a Publish on the state topic: process_state_message
ProcessStateMessage ==
    /\ AtSelect
    /\ sub_state \in {"yes", "closing"}
    /\ \E p \in StatePayloads :
        /\ payload' = p
        /\ LET new_state == ParseState(p)
           IN  IF ~new_state.ok
               THEN /\ result' = "parse_err"
                    /\ pc' = "return"
                    /\ frames' = << >>
                    /\ path' = "none"
                    /\ UNCHANGED << state, current_brightness >>
               ELSE Apply(new_state.value)
    /\ handler' = "state"
    /\ pre' = state
    /\ publishes' = << >>
    /\ DropListener
    /\ UNCHANGED << step_duration, initial_state_received, hass_discovery_sent,
                    sub_cmd, sub_state, ticks, timer, drain, command_merged >>

\* variant of TickEnabled: the timer branch is enabled whenever the light is on
TickEnabledWhenOn(s) == s.state = "On"

\* main.rs:86 the precondition of the rainbow_timer branch of select!
TickEnabled(s) == s.state = "On" /\ s.mode = "Rainbow"

\* main.rs:86 the rainbow_timer branch: step_hue, then apply
RainbowTick ==
    /\ AtSelect
    /\ TickEnabled(state)
    /\ ticks < MaxTicks
    /\ ticks' = ticks + 1
    /\ Apply(step_hue(state, step_duration))
    /\ handler' = "tick"
    /\ pre' = state
    /\ payload' = NoPayload
    /\ publishes' = << >>
    /\ DropListener
    /\ UNCHANGED << step_duration, initial_state_received, hass_discovery_sent,
                    sub_cmd, sub_state, timer, drain, command_merged >>

\* state.rs:193 one more turn of the loop of apply_transition, after its sleep
RampFrame ==
    /\ pc = "sleep"
    /\ \E ok \in BOOLEAN :
        LET cur == NextBrightness(state, current_brightness, step_duration)
        IN  /\ current_brightness' = cur
            /\ IF ~ok
               THEN /\ frames' = frames
                    /\ result' = "write_err"
                    /\ pc' = RampPc(FALSE, InRange(state, cur))
               ELSE /\ frames' = Append(frames, Line(FrameHsv(state, cur), state))
                    /\ result' = IF InRange(state, cur) THEN "none" ELSE "ok"
                    /\ pc' = RampPc(TRUE, InRange(state, cur))
    /\ UNCHANGED << state, step_duration, handler, payload, pre, path, publishes,
                    initial_state_received, hass_discovery_sent, sub_cmd, sub_state,
                    sig, ticks >>

RampStep == RampFrame /\ UNCHANGED << timer, drain, command_merged >>

\* variant of CommandPublishes: the State is published whatever apply returned
CommandPublishesAlways(r, s) == IF r = "parse_err" THEN << >> ELSE << s >>

\* main.rs:278-279 the ? after apply returns before publish_to_mqtt when apply failed
CommandPublishes(r, s) == IF r = "ok" THEN << s >> ELSE << >>

\* what main does with the Result of a tick's apply: the ? of main.rs:88
TickOutcome(r) == IF r = "write_err" THEN "exit_err" ELSE "select"

\* the rest of the handler after apply has returned, back to the top of the loop
Return ==
    /\ pc = "return"
    /\ CASE handler = "command" ->
              \* main.rs:278-279 and 112-116
              /\ publishes' = CommandPublishes(result, state)
              /\ pc' = "select"
              /\ UNCHANGED << initial_state_received, sub_state >>
         [] handler = "state" ->
              \* main.rs:118-126
              /\ initial_state_received' = TRUE
              /\ sub_state' = IF sub_state = "yes" THEN "closing" ELSE sub_state
              /\ pc' = "select"
              /\ UNCHANGED publishes
         [] OTHER ->
              \* main.rs:88
              /\ pc' = TickOutcome(result)
              /\ UNCHANGED << publishes, initial_state_received, sub_state >>
    /\ handler' = "none"
    /\ result' = "none"
    /\ payload' = NoPayload
    /\ pre' = state
    /\ path' = "none"
    /\ frames' = << >>
    /\ current_brightness' = 0
    /\ UNCHANGED << state, step_duration, hass_discovery_sent, sub_cmd, sig, ticks, timer, drain, command_merged >>

\* variant of SubscribeStateTopic: every connection subscribes to the state topic
SubscribeStateTopicAlways(isr, sub) == "yes"

\* main.rs:102 and 250 the state topic is among the filters only while the initial
\* state has not been received
SubscribeStateTopic(isr, sub) == IF ~isr THEN "yes" ELSE sub

\* main.rs:93 a ConnAck: discovery once, then subscribe_to_own_topics.  The requests
\* only fail when the EventLoop is gone, which main keeps alive, so they succeed.
ConnAck ==
    /\ AtSelect
    /\ hass_discovery_sent' = TRUE
    /\ sub_cmd' = TRUE
    /\ sub_state' = SubscribeStateTopic(initial_state_received, sub_state)
    /\ DropListener
    /\ UNCHANGED << state, step_duration, pc, handler, result, payload, pre, path, frames,
                    current_brightness, publishes, initial_state_received, ticks, timer, drain, command_merged >>

\* the broker carries out the unsubscribe of main.rs:124
BrokerUnsubscribes ==
    /\ pc \in {"select", "sleep"}
    /\ sub_state = "closing"
    /\ sub_state' = "no"
    /\ UNCHANGED << state, step_duration, pc, handler, result, payload, pre, path, frames,
                    current_brightness, publishes, initial_state_received,
                    hass_discovery_sent, sub_cmd, sig, ticks, timer, drain, command_merged >>

\* SIGTERM or SIGINT is delivered to the process: the listeners wait_for_terminate
\* made for this turn of the loop see it; outside select! there is no listener
Signal ==
    /\ pc \in {"select", "sleep"}
    /\ sig # "ready"
    /\ sig' = IF AtSelect THEN "ready" ELSE "missed"
    /\ UNCHANGED << state, step_duration, pc, handler, result, payload, pre, path, frames,
                    current_brightness, publishes, initial_state_received,
                    hass_discovery_sent, sub_cmd, sub_state, ticks, timer, drain, command_merged >>

\* main.rs:85 and 146-148 the signal branch completes: break, then the publish of the
\* State; the EventLoop holds some number of events it can yield without waiting
Terminate ==
    /\ AtSelect
    /\ sig = "ready"
    /\ pc' = "drain"
    /\ publishes' = << state >>
    /\ \E n \in 0..MaxReady : drain' = [ready |-> n, polled |-> 0]
    /\ UNCHANGED << state, step_duration, handler, result, payload, pre, path, frames,
                    current_brightness, initial_state_received, hass_discovery_sent,
                    sub_cmd, sub_state, sig, ticks, timer, command_merged >>

\* futures::poll!(eventloop.poll()) of main.rs:157
PollOnce(ready) == IF ready > 0 THEN "Ready" ELSE "Pending"

\* variant of DrainBreaks: the loop is left after the first poll
DrainBreaksAlways(res) == TRUE

\* main.rs:157-160 Poll::Pending => break, Poll::Ready goes round again
DrainBreaks(res) == res = "Pending"

\* main.rs:153-165 one turn of the loop after the shutdown publish; return Ok(())
DrainPoll ==
    /\ pc = "drain"
    /\ LET res == PollOnce(drain.ready)
       IN  /\ drain' = IF res = "Ready"
                       THEN [ready |-> drain.ready - 1, polled |-> drain.polled + 1]
                       ELSE drain
           /\ pc' = IF DrainBreaks(res) THEN "exit_ok" ELSE "drain"
    /\ UNCHANGED << state, step_duration, handler, result, payload, pre, path, frames,
                    current_brightness, publishes, initial_state_received,
                    hass_discovery_sent, sub_cmd, sub_state, sig, ticks, timer, command_merged >>

Next ==
    \/ ProcessCommandMessage
    \/ ProcessStateMessage
    \/ RainbowTick
    \/ RampStep
    \/ Return
    \/ ConnAck
    \/ BrokerUnsubscribes
    \/ Signal
    \/ Terminate
    \/ DrainPoll

Spec == Init /\ [][Next]_vars

----------------------------------------------------------------------------
(* step_hue on its own: a Rainbow State that is On, stepped through one cycle *)

\* the hues a State can start a cycle with: the default's, a message's, a snapshot's
StartHues == {360 * HueScale, 90 * HueScale, 0}
\* the rainbow_speed settings tried: slowest, the default's value, fastest
CycleSpeeds == {0, MAX_RAINBOW_SPEED_S, MAX_RAINBOW_SPEED_SETTING}

\* steps_in_time = rainbow_time / step_duration
StepsInTime(speed, sd) == RainbowTime(speed) \div (sd * (MAX_RAINBOW_SPEED_SETTING \div DsPerS))
\* rainbow_time is a whole number of steps
WholeSteps(speed, sd) == RainbowTime(speed) % (sd * (MAX_RAINBOW_SPEED_SETTING \div DsPerS)) = 0

InitHue ==
    /\ \E h \in StartHues, sp \in CycleSpeeds :
          state = [DefaultState EXCEPT !.color.h = h, !.rainbow_speed = sp,
                                       !.mode = "Rainbow", !.state = "On"]
    /\ step_duration \in StepDurations
    /\ WholeSteps(state.rainbow_speed, step_duration)
    /\ pre = state
    /\ ticks = 0
    /\ pc = "select"
    /\ handler = "none"
    /\ result = "none"
    /\ payload = NoPayload
    /\ path = "none"
    /\ frames = << >>
    /\ current_brightness = 0
    /\ publishes = << >>
    /\ initial_state_received = FALSE
    /\ hass_discovery_sent = FALSE
    /\ sub_cmd = FALSE
    /\ sub_state = "no"
    /\ sig = "none"
    /\ timer = TimerAtStart
    /\ drain = NotDraining
    /\ command_merged = FALSE

\* one call of step_hue, counted, until the cycle is over
StepHueOnce ==
    /\ ticks < StepsInTime(state.rainbow_speed, step_duration)
    /\ state' = step_hue(state, step_duration)
    /\ ticks' = ticks + 1
    /\ UNCHANGED << step_duration, pc, handler, result, payload, pre, path, frames,
                    current_brightness, publishes, initial_state_received,
                    hass_discovery_sent, sub_cmd, sub_state, sig, timer, drain, command_merged >>

NextHue == StepHueOnce

SpecHue == InitHue /\ [][NextHue]_vars

----------------------------------------------------------------------------
(* The loop with its clock: rainbow_timer, a light switched on and off, ramps *)

\* the clock stops here
MaxTime == 12

\* commands that only name a power, a mode, or both
PowerModePayloads ==
    { p \in CommandPayloads :
        p.kind = "json" /\ p.color = None /\ p.brightness = None /\ p.rainbow_speed = None }

\* variant of NextTimeout, MissedTickBehavior::Burst: the deadlines stay on the grid
NextTimeoutBurst(timeout, now, period) == timeout + period

\* main.rs:78 MissedTickBehavior::Delay: a tick that fires late puts the next
\* deadline one period after now, a tick on time one period after its deadline
NextTimeout(timeout, now, period) ==
    IF now > timeout THEN now + period ELSE timeout + period

\* the state after main.rs:93-103 has run once: discovery sent, topics subscribed
InitTimer ==
    /\ state = DefaultState
    /\ step_duration \in StepDurations
    /\ pc = "select"
    /\ handler = "none"
    /\ result = "none"
    /\ payload = NoPayload
    /\ pre = DefaultState
    /\ path = "none"
    /\ frames = << >>
    /\ current_brightness = 0
    /\ publishes = << >>
    /\ initial_state_received = FALSE
    /\ hass_discovery_sent = TRUE
    /\ sub_cmd = TRUE
    /\ sub_state = "yes"
    /\ sig = "none"
    /\ ticks = 0
    /\ timer = TimerAtStart
    /\ drain = NotDraining
    /\ command_merged = FALSE

\* the task is parked in select! with no branch ready and the clock moves on
TimePasses ==
    /\ AtSelect
    /\ ~(TickEnabled(state) /\ timer.now >= timer.deadline)
    /\ timer.now < MaxTime
    /\ timer' = [timer EXCEPT !.now = @ + 1]
    /\ UNCHANGED << drain, command_merged >>
    /\ UNCHANGED << state, step_duration, pc, handler, result, payload, pre, path, frames,
                    current_brightness, publishes, initial_state_received,
                    hass_discovery_sent, sub_cmd, sub_state, sig, ticks >>

\* main.rs:111 a command on the power or the mode, handled in no time until apply sleeps
TimedCommand == HandleCommand(PowerModePayloads) /\ UNCHANGED << timer, drain >>

\* state.rs:213 the sleep of the ramp takes step_duration, then the next frame
TimedRampStep ==
    /\ timer.now + step_duration <= MaxTime
    /\ RampFrame
    /\ timer' = [timer EXCEPT !.now = @ + step_duration]
    /\ UNCHANGED << drain, command_merged >>

\* main.rs:86 rainbow_timer.tick() completes when its deadline has come and the
\* branch is enabled; the timer takes its next deadline; step_hue, then apply
TimedTick ==
    /\ AtSelect
    /\ TickEnabled(state)
    /\ timer.now >= timer.deadline
    /\ timer' = [ now |-> timer.now,
                  deadline |-> NextTimeout(timer.deadline, timer.now, step_duration),
                  last |-> Some(timer.now),
                  late |-> timer.now - timer.deadline ]
    /\ ticks' = ticks + 1
    /\ Apply(step_hue(state, step_duration))
    /\ handler' = "tick"
    /\ pre' = state
    /\ payload' = NoPayload
    /\ publishes' = << >>
    /\ DropListener
    /\ UNCHANGED << step_duration, initial_state_received, hass_discovery_sent,
                    sub_cmd, sub_state, drain, command_merged >>

NextTimer ==
    \/ TimePasses
    \/ TimedCommand
    \/ TimedRampStep
    \/ TimedTick
    \/ Return

SpecTimer == InitTimer /\ [][NextTimer]_vars

----------------------------------------------------------------------------
(* Properties *)

Black == << 0, 0, 0 >>
Last(seq) == seq[Len(seq)]

\* a command message was parsed, so edit and apply have run on it
Edited == handler = "command" /\ result # "parse_err"

\* the colour of the message is to be applied
ColorApplies ==
    IsSome(payload.color) /\ (pre.mode = "Static" \/ payload.mode = Some("Static"))

\* C1: after edit the color is the message's color when the message carries one and
\* the State was Static or the message sets Static; in every other case it is the
\* color the State had.
C1_EditColor ==
    Edited => state.color = (IF ColorApplies THEN payload.color[1] ELSE pre.color)

\* C1 witness: a Rainbow State got a color without a mode and kept its own color
C1_Witness ==
    /\ Edited
    /\ pre.mode = "Rainbow"
    /\ IsSome(payload.color) /\ payload.mode = None
    /\ payload.color[1] # pre.color
    /\ state.color = pre.color

\* C2 as claimed: every line written while the State's power is Off is black, the
\* frames of an On->Off ramp included.
C2_OffIsAlwaysBlack ==
    \A i \in 1..Len(frames) : frames[i].power = "Off" => frames[i].rgb = Black

\* C2 amended: with power Off the immediate path writes black, and the last frame of
\* a completed On->Off ramp is black.
C2_OffIsBlackAtRest ==
    \A i \in 1..Len(frames) :
        ( /\ frames[i].power = "Off"
          /\ \/ path = "immediate"
             \/ (path = "transition" /\ result = "ok" /\ i = Len(frames)) )
        => frames[i].rgb = Black

\* C2 witness: a completed On->Off ramp that began lit and ended black
C2_Witness ==
    /\ pc = "return" /\ result = "ok" /\ path = "transition"
    /\ state.state = "Off"
    /\ Len(frames) >= 3
    /\ frames[1].rgb # Black
    /\ Last(frames).rgb = Black

\* C3: a write failure in an apply made by the event loop never ends the process.
C3_WriteFailureNeverExits == pc # "exit_err"

\* the brightness field as a rendered brightness
Configured(s) == s.brightness * TRANSITION_LENGTH_DS

\* C4: the frames of a ramp are monotone and end at the target: from 0 up to the
\* configured brightness after Off->On, from the configured brightness down to 0
\* after On->Off; the brightness field and the power stay what edit made them.
C4_Ramp ==
    path = "transition" =>
        /\ state.state = UnwrapOr(payload.state, pre.state)
        /\ state.state # pre.state
        /\ state.brightness = UnwrapOr(payload.brightness, pre.brightness)
        /\ frames # << >> =>
              frames[1].v = (IF state.state = "On" THEN 0 ELSE Configured(state))
        /\ \A i \in 1..(Len(frames) - 1) :
              IF state.state = "On"
              THEN frames[i].v <= frames[i + 1].v
              ELSE frames[i].v >= frames[i + 1].v
        /\ result = "ok" =>
              Last(frames).v = (IF state.state = "On" THEN Configured(state) ELSE 0)

\* C4 witness: a completed Off->On ramp of six frames to full brightness
C4_Witness ==
    /\ pc = "return" /\ result = "ok" /\ path = "transition"
    /\ state.state = "On" /\ state.brightness = U8_MAX
    /\ Len(frames) = 6
    /\ frames[1].v = 0 /\ frames[3].v > frames[2].v
    /\ Last(frames).v = Configured(state)

\* the frames a ramp may write: the steps in the transition length, rounded up, and two
MaxFrames(sd) == ((TRANSITION_LENGTH_DS + sd - 1) \div sd) + 2

C6_Ranges ==
    /\ state.brightness \in 0..U8_MAX
    /\ state.rainbow_speed \in 0..MAX_RAINBOW_SPEED_SETTING

\* C7: a command whose brightness or rainbow_speed is out of range is merged with
\* that field clamped, its other fields taking effect; it is not discarded.
C7_ClampedNotRejected ==
    (handler = "command" /\ payload.kind = "json") =>
        /\ result # "parse_err"
        /\ state.brightness =
              (IF IsSome(payload.brightness)
               THEN Clamp(payload.brightness[1], 0, U8_MAX) ELSE pre.brightness)
        /\ state.rainbow_speed =
              (IF IsSome(payload.rainbow_speed)
               THEN Clamp(payload.rainbow_speed[1], 0, MAX_RAINBOW_SPEED_SETTING)
               ELSE pre.rainbow_speed)
        /\ state.mode = UnwrapOr(payload.mode, pre.mode)
        /\ state.state = UnwrapOr(payload.state, pre.state)

\* C8: the transition flag is false wherever the loop waits, also after an apply that
\* failed; a tick or a snapshot never takes the transition path.
C8_TransitionConsumed ==
    /\ pc \in {"select", "sleep", "return"} => ~state.transition
    /\ handler \in {"tick", "state"} => path # "transition"

\* C8 witness: an apply on the transition path has returned an error
C8_Witness ==
    /\ pc = "return" /\ result = "write_err" /\ path = "transition"
    /\ handler = "command"
    /\ ~state.transition

\* C9: edit sets the transition flag (apply then takes the transition path) exactly
\* when the message names a power that differs from the State's.
C9_EditTransition ==
    Edited =>
        ((path = "transition") <=> (IsSome(payload.state) /\ payload.state[1] # pre.state))

\* C9 witness: a message repeating the current power was applied on the immediate path
C9_Witness ==
    /\ Edited
    /\ payload.state = Some(pre.state)
    /\ path = "immediate"

\* C10: while a ramp runs nothing but the ramp acts on the main task: no handler is
\* dispatched, no signal is served, and the State and the loop's flags stay put.
C10_RampIsAtomic ==
    [][ pc = "sleep" =>
          /\ pc' \in {"sleep", "return"}
          /\ handler' = handler /\ payload' = payload /\ pre' = pre
          /\ state' = state /\ path' = path
          /\ ticks' = ticks /\ publishes' = publishes
          /\ initial_state_received' = initial_state_received
          /\ hass_discovery_sent' = hass_discovery_sent
          /\ sig' # "ready"
          /\ Len(frames') >= Len(frames)
          /\ SubSeq(frames', 1, Len(frames)) = frames ]_vars

\* C10 witness: a ramp is asleep between frames and a signal came meanwhile
C10_Witness ==
    /\ pc = "sleep" /\ path = "transition"
    /\ Len(frames) >= 3
    /\ sig = "missed"

\* C11: a termination request that arrives while a ramp runs is deferred, not lost:
\* when the ramp is over and the loop waits again, the request is there to be served.
C11_SignalDeferred == pc = "select" => sig # "missed"

\* a handler got a payload that is not JSON, or a snapshot whose color_mode is not "hs"
MalformedInbound ==
    /\ handler \in {"command", "state"}
    /\ \/ payload.kind = "garbage"
       \/ (handler = "state" /\ payload.color_mode # "hs")

\* C12: a malformed command or snapshot payload, a snapshot whose color_mode is not
\* "hs" included, is discarded: no field of the State changes, nothing is rendered,
\* and the handler ends without a publish.
C12_MalformedDiscarded ==
    /\ [](MalformedInbound =>
            /\ result = "parse_err" /\ pc = "return"
            /\ state = pre
            /\ path = "none" /\ frames = << >>
            /\ publishes = << >>)
    /\ [][MalformedInbound => (state' = pre /\ publishes' = << >>)]_vars

\* C12 witness: a snapshot with color_mode "rgb" was refused by a State that had changed
C12_Witness ==
    /\ handler = "state" /\ pc = "return"
    /\ payload.kind = "json" /\ payload.color_mode = "rgb"
    /\ result = "parse_err"
    /\ state = pre /\ state # DefaultState /\ state.color # payload.color

\* the State a command handler leaves in memory: the merge, its transition consumed
PostEdit == [edit(pre, ParseControlMessage(payload).value) EXCEPT !.transition = FALSE]

\* C13: a command whose apply succeeds is followed by exactly one publish, of the
\* post-edit State, made after apply has returned; a command whose apply fails is
\* followed by none, and the State keeps the merged values.
C13_PublishAfterApply ==
    /\ [](handler = "command" => publishes = << >>)
    /\ [](Edited => state = PostEdit)
    /\ [][(handler = "command" /\ pc = "return") =>
            /\ state' = state
            /\ publishes' = (IF result = "ok" THEN << PostEdit >> ELSE << >>)]_vars

\* C13 witness: a command was applied by a ramp and its State published
C13_Witness ==
    /\ pc = "select" /\ handler = "none"
    /\ publishes = << state >>
    /\ state.state = "On" /\ state.brightness = 0

\* the State is the snapshot of the payload, field by field, and apply has run on it
SnapshotReplaced ==
    /\ payload.kind = "json"
    /\ state = [ color |-> payload.color, brightness |-> payload.brightness,
                 rainbow_speed |-> payload.rainbow_speed, mode |-> payload.mode,
                 state |-> payload.state, transition |-> FALSE ]
    /\ path = "immediate"
    /\ result = "ok" => frames = << Line(ImmediateHsv(state), state) >>

\* C14 as claimed: the first message on the state topic, whatever it is, replaces the
\* State and is rendered.
C14_FirstSnapshotAlwaysReplaces ==
    (handler = "state" /\ ~initial_state_received) => SnapshotReplaced

\* C14 amended: the first message on the state topic replaces the State and is
\* rendered if it decodes; decoded or not, handling it marks the initial state as
\* received and issues the unsubscribe, and from then on no connection subscribes to
\* the state topic again.
C14_FirstSnapshot ==
    /\ []((handler = "state" /\ ~initial_state_received /\ result # "parse_err")
            => SnapshotReplaced)
    /\ []((handler = "state" /\ result = "parse_err") => state = pre)
    /\ [][(handler = "state" /\ pc = "return")
            => (initial_state_received' /\ sub_state' \in {"closing", "no"})]_vars
    /\ [](initial_state_received => sub_state # "yes")
    /\ [][initial_state_received => initial_state_received']_vars

\* C14 witness: the first snapshot changed the State and was rendered
C14_Witness ==
    /\ handler = "state" /\ ~initial_state_received
    /\ pc = "return" /\ result = "ok"
    /\ state # pre /\ state.mode = "Rainbow"
    /\ Len(frames) = 1

\* C15: a tick handler runs only on a State that is On and Rainbow; while the State
\* is Off or Static the hue changes only when a command or a snapshot is handled.
C15_TickOnlyOnRainbow ==
    /\ [](handler = "tick" => (pre.state = "On" /\ pre.mode = "Rainbow"))
    /\ [][(handler' = "tick" /\ handler # "tick")
            => (state.state = "On" /\ state.mode = "Rainbow")]_vars
    /\ [][(state'.color.h # state.color.h /\ ~(state.state = "On" /\ state.mode = "Rainbow"))
            => handler' \in {"command", "state"}]_vars

\* C15 witness: a tick advanced the hue of a Rainbow State that is On
C15_Witness ==
    /\ handler = "tick"
    /\ pre.state = "On" /\ pre.mode = "Rainbow"
    /\ state.color.h # pre.color.h

\* C16: the hue is in [0,360) in every reachable state, the default State included.
C16_HueInRange == 0 <= state.color.h /\ state.color.h < FullCircle

\* C17: edit with the empty ControlMessage leaves every field of the State unchanged
\* (the transition flag being false, as it is wherever the loop waits).
C17_EmptyEdit ==
    (Edited /\ FieldCount(payload) = 0) =>
        /\ ~pre.transition
        /\ edit(pre, ParseControlMessage(payload).value) = pre
        /\ state = pre

\* C17 witness: the empty message was applied to a State that is not the default one
C17_Witness ==
    /\ Edited /\ FieldCount(payload) = 0
    /\ pre # DefaultState /\ pre.mode = "Rainbow" /\ pre.state = "On"
    /\ state = pre

\* C18: step_hue is periodic: with rainbow_time a whole number N of steps, N calls of
\* step_hue bring the hue back to the value it started from.
C18_HuePeriodic ==
    ticks = StepsInTime(pre.rainbow_speed, step_duration) => state.color.h = pre.color.h

\* C19: a write that fails on a frame of a ramp ends the ramp at once: apply returns
\* the error with no further frame and no further sleep, the State keeps the power
\* the message set, and the transition flag is false.
C19_RampAborts ==
    /\ []((path = "transition" /\ result = "write_err") =>
            /\ pc = "return"
            /\ ~state.transition
            /\ state.state = UnwrapOr(payload.state, pre.state)
            /\ state.state # pre.state)
    /\ [][(path = "transition" /\ result = "write_err") =>
            /\ pc' = "select" /\ handler' = "none"
            /\ state' = state
            /\ frames' = << >>]_vars

\* C19 witness: the fourth frame of an On->Off ramp failed after three were written
C19_Witness ==
    /\ path = "transition" /\ result = "write_err" /\ pc = "return"
    /\ Len(frames) = 3
    /\ pre.state = "On" /\ state.state = "Off"
    /\ ~state.transition

\* a command set the mode to Static, without a color, on a State that was Rainbow
SwitchedToStatic ==
    /\ Edited
    /\ pre.mode = "Rainbow"
    /\ payload.mode = Some("Static") /\ payload.color = None

\* C20: after a switch from Rainbow to Static by a message without a color, the color
\* is the one the State held at the switch, and an edit that follows with a color and
\* no mode sets the color to the message's.
C20_SwitchKeepsColor ==
    SwitchedToStatic =>
        /\ state.mode = "Static"
        /\ state.color = pre.color
        /\ \A p \in CommandPayloads :
              (ParseControlMessage(p).ok /\ IsSome(p.color) /\ p.mode = None)
                  => edit(state, ParseControlMessage(p).value).color = p.color[1]

\* C20 witness: the switch came after a tick had moved the hue off every hue a
\* message or the default carries, and the State kept that hue
C20_Witness ==
    /\ SwitchedToStatic
    /\ pre.color.h \notin {360 * HueScale, 90 * HueScale, 0}
    /\ state.color = pre.color
    /\ state.mode = "Static"

\* a tick handler begins in this step
TickFires == handler' = "tick" /\ handler # "tick"

\* C21: ticks missed while the branch was disabled or the loop was in a ramp do not
\* pile up: a tick may fire at once when the branch is enabled again, but every tick
\* comes at least one step_duration after the tick before it, and after a tick the
\* next deadline is one step_duration ahead.
C21_NoTickBurst ==
    /\ [][(TickFires /\ IsSome(timer.last))
            => timer'.now - timer.last[1] >= step_duration]_vars
    /\ [][TickFires => timer'.deadline = timer'.now + step_duration]_vars
    /\ [](IsSome(timer.last) => timer.deadline >= timer.last[1] + step_duration)

\* C21 witness: a tick fired three periods or more after its deadline, ticks having
\* fired before it, and the next one is due a full period later
C21_Witness ==
    /\ handler = "tick"
    /\ ticks >= 2
    /\ timer.last = Some(timer.now)
    /\ timer.late >= 3 * step_duration
    /\ timer.deadline = timer.now + step_duration

\* C22: when the loop is left on a termination signal, the State in memory is
\* published once; the process returns only after a poll of the EventLoop found
\* nothing ready, and nothing else is published or changed meanwhile.
C22_ShutdownPublish ==
    /\ [](pc \in {"drain", "exit_ok"} => publishes = << state >>)
    /\ [](pc = "exit_ok" => drain.ready = 0)
    /\ [][(pc' = "drain" /\ pc # "drain") => (sig = "ready" /\ pc = "select")]_vars
    /\ [][pc' = "exit_ok" => (pc = "drain" /\ PollOnce(drain.ready) = "Pending")]_vars
    /\ [][pc = "drain" => (state' = state /\ publishes' = publishes)]_vars

\* C22 witness: a State that had been edited was published at shutdown and the
\* process returned after two polls were Ready and the third was Pending
C22_Witness ==
    /\ pc = "exit_ok"
    /\ state # DefaultState /\ state.state = "On"
    /\ publishes = << state >>
    /\ drain = [ready |-> 0, polled |-> 2]

\* C23: once a control message has been merged into the State, no message on the
\* state topic changes the State any more, in whatever order the two topics deliver.
C23_SnapshotNeverOverwrites ==
    (handler = "state" /\ command_merged) => state = pre

====
